---- MODULE Spec2Model ----
(***************************************************************************)
(* A model of sweeper.cpp: the board, mine placement (init_board), the     *)
(* recursive reveal, the win check (check_board) and the command loop of   *)
(* main.                                                                   *)
(*                                                                         *)
(* One step of the model is one of                                         *)
(*   - the top of the while loop in main: time++, check_board, the         *)
(*     game_over test (LoopTop);                                           *)
(*   - one command read by read_command and executed by the switch in      *)
(*     main (NewCmd, RevealCmd, FlagCmd, QuitCmd);                         *)
(*   - one iteration of the sampling loop of init_board (InitDraw): the    *)
(*     Reveal command that places mines is suspended only where it         *)
(*     consumes a random number, and the draw that places the last mine    *)
(*     runs the rest of the Reveal handler in the same step.               *)
(*                                                                         *)
(* Coordinates given to Reveal and Flag are in bounds (the precondition    *)
(* the command layer owes the engine).                                     *)
(***************************************************************************)
EXTENDS Integers, Sequences, FiniteSets, TLC

\* Bounds of the model.
MaxWidth == 3
MaxHeight == 3
MaxCells == 9
MaxMines == 1
MaxTurns == 3
MaxNew == 2

VARIABLES
  width,       \* Board::width
  height,      \* Board::height
  num_mines,   \* Board::num_mines
  cells,       \* Board::cells, index y * width + x, from 0
  game_over,   \* Board::game_over
  time,        \* Board::time
  pc,          \* position of main: "loop", "read", "init" or "done"
  command,     \* the local `command` of main, while its handler runs
  placed,      \* the local num_mines of init_board
  out,         \* the messages printed by the step just taken
  inits,       \* history: calls of init_board since the game began
  last         \* history: what the step just taken did

vars == <<width, height, num_mines, cells, game_over, time, pc, command,
          placed, out, inits, last>>

----------------------------------------------------------------------------
\* struct Cell

\* A value-initialised Cell (vector::resize).
BlankCell ==
  [is_mine |-> FALSE, is_revealed |-> FALSE, is_flagged |-> FALSE,
   neighbor_mines |-> 0]

\* board.cells.resize(width * height) on an empty vector.
BlankCells(w, h) == [i \in 0..(w * h - 1) |-> BlankCell]

\* The flattened index of (x, y).
Index(w, x, y) == y * w + x

\* The value an int : 4 bit-field holds after v is stored in it.
Wrap4(v) == ((v + 8) % 16) - 8

----------------------------------------------------------------------------
\* for_each_neighbour: the neighbours of (x, y) in the order f is called.

for_each_neighbour(w, h, x, y) ==
  (IF x > 0
     THEN << <<x - 1, y>> >>
          \o (IF y > 0 THEN << <<x - 1, y - 1>> >> ELSE << >>)
          \o (IF y < h - 1 THEN << <<x - 1, y + 1>> >> ELSE << >>)
     ELSE << >>)
  \o (IF x < w - 1
        THEN << <<x + 1, y>> >>
             \o (IF y > 0 THEN << <<x + 1, y - 1>> >> ELSE << >>)
             \o (IF y < h - 1 THEN << <<x + 1, y + 1>> >> ELSE << >>)
        ELSE << >>)
  \o (IF y > 0 THEN << <<x, y - 1>> >> ELSE << >>)
  \o (IF y < h - 1 THEN << <<x, y + 1>> >> ELSE << >>)

\* The indices for_each_neighbour visits around the cell of index pos.
NeighbourIndices(w, h, pos) ==
  LET ns == for_each_neighbour(w, h, pos % w, pos \div w)
  IN  {Index(w, ns[k][1], ns[k][2]) : k \in 1..Len(ns)}

----------------------------------------------------------------------------
\* init_board

\* A blocked index with the coordinates taken the other way round.
blocked_transposed(w, x, y) == x * w + y

\* int blocked = y * board.width + x.
blocked(w, x, y) == y * w + x

\* The lambda of init_board: one more mine next to a cell that is not a mine.
count_neighbour(cell) ==
  IF ~cell.is_mine
    THEN [cell EXCEPT !.neighbor_mines = Wrap4(cell.neighbor_mines + 1)]
    ELSE cell

\* Lines 251-264: the cell at pos becomes a mine.
place_mine(cs, w, h, pos) ==
  LET around == NeighbourIndices(w, h, pos)
  IN  [i \in DOMAIN cs |->
         IF i = pos
           THEN [cs[i] EXCEPT !.is_mine = TRUE, !.neighbor_mines = 0]
           ELSE IF i \in around THEN count_neighbour(cs[i]) ELSE cs[i]]

\* An iteration that does not test whether the cell drawn is a mine already.
init_draw_recount(cs, w, h, b, n, pos) ==
  IF pos = b
    THEN [cells |-> cs, num_mines |-> n]
    ELSE [cells |-> place_mine(cs, w, h, pos), num_mines |-> n + 1]

\* One iteration of the while loop of init_board with the draw pos; b is
\* blocked and n the local num_mines.
init_draw(cs, w, h, b, n, pos) ==
  IF pos = b
    THEN [cells |-> cs, num_mines |-> n]
    ELSE IF cs[pos].is_mine
           THEN [cells |-> cs, num_mines |-> n]
           ELSE [cells |-> place_mine(cs, w, h, pos), num_mines |-> n + 1]

----------------------------------------------------------------------------
\* reveal

RECURSIVE reveal(_, _, _, _, _), reveal_each(_, _, _, _)

\* A cascade that also goes on from a cell that counts one mine.
cascades_below_two(cell) == ~cell.is_mine /\ ~(cell.neighbor_mines > 1)

\* A cascade that does not stop at a mine.
cascades_from_mines(cell) == ~(cell.neighbor_mines > 0)

\* A cascade that a flag on the cell stops.
cascades_unflagged(cell) ==
  ~cell.is_mine /\ ~(cell.neighbor_mines > 0) /\ ~cell.is_flagged

\* Lines 279-287: reveal goes on to the neighbours of the cell.
cascades(cell) == ~cell.is_mine /\ ~(cell.neighbor_mines > 0)

\* b is [cells, log]: the cells, and the indices whose is_revealed was set, in
\* the order it was set.
reveal(b, w, h, x, y) ==
  LET i == Index(w, x, y)
      cell == b.cells[i]
  IN  IF cell.is_revealed
        THEN b
        ELSE LET b1 == [cells |-> [b.cells EXCEPT ![i].is_flagged = FALSE,
                                                  ![i].is_revealed = TRUE],
                        log |-> Append(b.log, i)]
             IN  IF cascades(cell)
                   THEN reveal_each(b1, w, h, for_each_neighbour(w, h, x, y))
                   ELSE b1

\* for_each_neighbour(board, x, y, reveal) over the neighbours ns.
reveal_each(b, w, h, ns) ==
  IF ns = << >>
    THEN b
    ELSE reveal_each(reveal(b, w, h, Head(ns)[1], Head(ns)[2]), w, h, Tail(ns))

----------------------------------------------------------------------------
\* check_board

RECURSIVE count_cells(_, _, _)

\* The first loop of check_board from index i on; acc is
\* [correctly_flagged_mines, unrevealed_cells].
count_cells(cs, i, acc) ==
  IF i \notin DOMAIN cs
    THEN acc
    ELSE count_cells(cs, i + 1,
           IF cs[i].is_flagged
             THEN IF cs[i].is_mine
                    THEN [acc EXCEPT !.correctly_flagged_mines = @ + 1]
                    ELSE acc
             ELSE IF ~cs[i].is_revealed
                    THEN [acc EXCEPT !.unrevealed_cells = @ + 1]
                    ELSE acc)

\* A win test that wants every mine flagged.
is_win_all_flagged(cs, acc, nm) == acc.correctly_flagged_mines = nm

\* The test of line 310 on the two counters.
is_win(cs, acc, nm) ==
  acc.correctly_flagged_mines + acc.unrevealed_cells = nm

\* check_board: [cells, win]; win says "You win!" was printed and game_over set.
check_board(cs, nm) ==
  LET acc == count_cells(cs, 0,
               [correctly_flagged_mines |-> 0, unrevealed_cells |-> 0])
  IN  IF is_win(cs, acc, nm)
        THEN [cells |-> [i \in DOMAIN cs |->
                           IF cs[i].is_mine
                             THEN [cs[i] EXCEPT !.is_flagged = TRUE]
                             ELSE cs[i]],
              win |-> TRUE]
        ELSE [cells |-> cs, win |-> FALSE]

----------------------------------------------------------------------------
\* The Reveal case of main after init_board (lines 399-436).

RECURSIVE count_flags(_, _, _)

\* The first lambda of the chord branch over the neighbours ns.
count_flags(cs, w, ns) ==
  IF ns = << >>
    THEN 0
    ELSE (IF cs[Index(w, Head(ns)[1], Head(ns)[2])].is_flagged THEN 1 ELSE 0)
         + count_flags(cs, w, Tail(ns))

RECURSIVE chord_each(_, _, _, _)

\* A chord that opens the neighbours that are not flagged.
chord_reveals_unflagged(cell) == ~cell.is_flagged

\* The test of the second lambda of the chord branch (line 422).
chord_reveals(cell) == ~cell.is_mine

\* The second for_each_neighbour of the chord branch over the neighbours ns.
chord_each(b, w, h, ns) ==
  IF ns = << >>
    THEN b
    ELSE LET x == Head(ns)[1]
             y == Head(ns)[2]
         IN  chord_each(IF chord_reveals(b.cells[Index(w, x, y)])
                          THEN reveal(b, w, h, x, y)
                          ELSE b,
                        w, h, Tail(ns))

\* A chord that goes ahead with too few flags.
chord_accepted_upto(flags, count) == flags <= count

\* Line 412 negated: the chord goes ahead.
chord_accepted(flags, count) == ~(flags # count)

\* [cells, game_over, out, op, log] of a Reveal of (x, y) with game_over = go.
reveal_command(cs, go, w, h, x, y) ==
  LET cell == cs[Index(w, x, y)]
      b0 == [cells |-> cs, log |-> << >>]
  IN  IF cell.is_revealed /\ cell.neighbor_mines > 0
        THEN IF chord_accepted(
                  count_flags(cs, w, for_each_neighbour(w, h, x, y)),
                  cell.neighbor_mines)
               THEN LET b == chord_each(b0, w, h, for_each_neighbour(w, h, x, y))
                    IN  [cells |-> b.cells, game_over |-> go, out |-> << >>,
                         op |-> "chord", log |-> b.log]
               ELSE [cells |-> cs, game_over |-> go,
                     out |-> <<"Incorrect number of flags">>,
                     op |-> "chord_rejected", log |-> << >>]
        ELSE IF ~cell.is_revealed
               THEN LET b == reveal(b0, w, h, x, y)
                    IN  [cells |-> b.cells,
                         game_over |-> go \/ b.cells[Index(w, x, y)].is_mine,
                         out |-> << >>, op |-> "reveal", log |-> b.log]
               ELSE [cells |-> cs, game_over |-> go, out |-> << >>,
                     op |-> "revealed_already", log |-> << >>]

----------------------------------------------------------------------------
\* The state machine.

\* No command is being handled: `command` is a local of the loop body.
NoCommand == [verb |-> "None", x |-> 0, y |-> 0]

\* What a step did: the command and its target, whether init_board ran and
\* drew a mine again (dup) or the excluded cell (blk), whether the target was
\* flagged before the step, and the cells reveal opened.
Step(op, x, y, init, dup, blk, flagged, log) ==
  [op |-> op, x |-> x, y |-> y, init |-> init, dup |-> dup, blk |-> blk,
   flagged |-> flagged, log |-> log]

\* The mine counts of the boards of the model: sparse boards, and the densest
\* board init_board can fill.
MineCounts(w, h) == {m \in 0..MaxMines : m < w * h} \cup {w * h - 1}

\* Board board; the arguments; board.cells.resize(...).
Init ==
  /\ width \in 1..MaxWidth
  /\ height \in 1..MaxHeight
  /\ width * height <= MaxCells
  /\ num_mines \in MineCounts(width, height)
  /\ cells = BlankCells(width, height)
  /\ game_over = FALSE
  /\ time = 0
  /\ pc = "loop"
  /\ command = NoCommand
  /\ placed = 0
  /\ out = << >>
  /\ inits = 0
  /\ last = Step("start", 0, 0, FALSE, FALSE, FALSE, FALSE, << >>)

\* Lines 365-373: the top of the loop.
LoopTop ==
  /\ pc = "loop"
  /\ LET r == check_board(cells, num_mines)
         go == game_over \/ r.win
     IN  /\ time' = time + 1
         /\ cells' = r.cells
         /\ game_over' = go
         /\ out' = (IF r.win THEN <<"You win!">> ELSE << >>)
                   \o (IF go THEN <<"Game over!">> ELSE << >>)
         /\ pc' = IF go THEN "done" ELSE "read"
  /\ last' = Step("check", 0, 0, FALSE, FALSE, FALSE, FALSE, << >>)
  /\ UNCHANGED <<width, height, num_mines, command, placed, inits>>

\* A Flag that sets the flag instead of flipping it.
toggle_flag_sets(cs, i) ==
  IF cs[i].is_revealed THEN cs ELSE [cs EXCEPT ![i].is_flagged = TRUE]

\* Lines 440-445: the cells after a Flag of the cell of index i.
toggle_flag(cs, i) ==
  IF cs[i].is_revealed
    THEN cs
    ELSE [cs EXCEPT ![i].is_flagged = ~cs[i].is_flagged]

\* New dimensions that replace the old ones when either argument is positive.
new_dims_either(w, h, x, y) ==
  IF x > 0 \/ y > 0
    THEN [width |-> x, height |-> y]
    ELSE [width |-> w, height |-> h]

\* Lines 382-386: the dimensions after New with the arguments x and y.
new_dims(w, h, x, y) ==
  IF x > 0 /\ y > 0
    THEN [width |-> x, height |-> y]
    ELSE [width |-> w, height |-> h]

\* The model follows a game for MaxTurns commands.
WithinTurns == time <= MaxTurns

\* The arguments read_command gives New (line 172).
NewArgs == {<<0, 0>>}

\* case New.
NewCmd(x, y) ==
  /\ pc = "read"
  /\ WithinTurns
  /\ command' = NoCommand
  /\ width' = new_dims(width, height, x, y).width
  /\ height' = new_dims(width, height, x, y).height
  /\ cells' = BlankCells(width', height')
  /\ game_over' = FALSE
  /\ time' = 0
  /\ pc' = "loop"
  /\ out' = << >>
  /\ inits' = 0
  /\ last' = Step("new", x, y, FALSE, FALSE, FALSE, FALSE, << >>)
  /\ UNCHANGED <<num_mines, placed>>

\* The rest of case Reveal once init_board has returned (or was not called).
FinishReveal(cs, x, y, init, dup, blk) ==
  LET r == reveal_command(cs, game_over, width, height, x, y)
  IN  /\ cells' = r.cells
      /\ game_over' = r.game_over
      /\ out' = r.out
      /\ last' = Step(r.op, x, y, init, dup, blk,
                      cs[Index(width, x, y)].is_flagged, r.log)
      /\ command' = NoCommand
      /\ pc' = "loop"

\* case Reveal. On the first turn init_board is entered; its loop is left at
\* once when there is no mine to place.
RevealCmd(x, y) ==
  /\ pc = "read"
  /\ WithinTurns
  /\ IF time = 1
       THEN /\ inits' = inits + 1
            /\ placed' = 0
            /\ IF 0 < num_mines
                 THEN /\ pc' = "init"
                      /\ command' = [verb |-> "Reveal", x |-> x, y |-> y]
                      /\ last' = Step("init", x, y, TRUE, FALSE, FALSE, FALSE,
                                      << >>)
                      /\ out' = << >>
                      /\ UNCHANGED <<cells, game_over>>
                 ELSE FinishReveal(cells, x, y, TRUE, FALSE, FALSE)
       ELSE /\ FinishReveal(cells, x, y, FALSE, FALSE, FALSE)
            /\ UNCHANGED <<inits, placed>>
  /\ UNCHANGED <<width, height, num_mines, time>>

\* One iteration of the while loop of init_board, drawing pos.
InitDraw(pos) ==
  /\ pc = "init"
  /\ placed < num_mines
  /\ LET b == blocked(width, command.x, command.y)
         r == init_draw(cells, width, height, b, placed, pos)
         dup == last.dup \/ cells[pos].is_mine
         blk == last.blk \/ pos = b
     IN  /\ placed' = r.num_mines
         /\ IF r.num_mines < num_mines
              THEN /\ cells' = r.cells
                   /\ pc' = "init"
                   /\ out' = << >>
                   /\ last' = Step("init", command.x, command.y, TRUE, dup,
                                   blk, FALSE, << >>)
                   /\ UNCHANGED <<game_over, command>>
              ELSE FinishReveal(r.cells, command.x, command.y, TRUE, dup, blk)
  /\ UNCHANGED <<width, height, num_mines, time, inits>>

\* case Flag.
FlagCmd(x, y) ==
  /\ pc = "read"
  /\ WithinTurns
  /\ command' = NoCommand
  /\ LET i == Index(width, x, y)
     IN  /\ cells' = toggle_flag(cells, i)
         /\ last' = Step(IF cells[i].is_revealed THEN "flag_revealed" ELSE "flag",
                         x, y, FALSE, FALSE, FALSE, cells[i].is_flagged, << >>)
  /\ pc' = "loop"
  /\ out' = << >>
  /\ UNCHANGED <<width, height, num_mines, game_over, time, placed, inits>>

\* case Quit (also the end of the input).
QuitCmd ==
  /\ pc = "read"
  /\ WithinTurns
  /\ command' = NoCommand
  /\ pc' = "done"
  /\ out' = << >>
  /\ last' = Step("quit", 0, 0, FALSE, FALSE, FALSE, FALSE, << >>)
  /\ UNCHANGED <<width, height, num_mines, cells, game_over, time, placed,
                 inits>>

Next ==
  \/ LoopTop
  \/ \E a \in NewArgs : NewCmd(a[1], a[2])
  \/ \E x \in 0..(width - 1), y \in 0..(height - 1) : RevealCmd(x, y)
  \/ \E pos \in 0..(width * height - 1) : InitDraw(pos)
  \/ \E x \in 0..(width - 1), y \in 0..(height - 1) : FlagCmd(x, y)
  \/ QuitCmd

Spec == Init /\ [][Next]_vars

\* The mine counts no placement can reach: as many mines as cells, and more.
ImpossibleCounts(w, h) == {w * h, w * h + 1}

\* Init for the boards whose --mines is not below width * height.
InitImpossible ==
  /\ width \in 1..MaxWidth
  /\ height \in 1..MaxHeight
  /\ width * height <= MaxCells
  /\ num_mines \in ImpossibleCounts(width, height)
  /\ cells = BlankCells(width, height)
  /\ game_over = FALSE
  /\ time = 0
  /\ pc = "loop"
  /\ command = NoCommand
  /\ placed = 0
  /\ out = << >>
  /\ inits = 0
  /\ last = Step("start", 0, 0, FALSE, FALSE, FALSE, FALSE, << >>)

\* The program started with such a board.
SpecImpossible == InitImpossible /\ [][Next]_vars

\* The values of command.x and command.y the New case can be entered with:
\* read_command supplies 0 only (line 172); the test of line 382 is also
\* followed for a negative and for a positive value.
NewValues == {-1, 0, MaxNew}

\* Init for one-row boards with fewer mines than any board of the model has
\* cells.
InitNew ==
  /\ width \in 1..MaxWidth
  /\ height = 1
  /\ num_mines \in {m \in 0..MaxMines : m < width}
  /\ cells = BlankCells(width, height)
  /\ game_over = FALSE
  /\ time = 0
  /\ pc = "loop"
  /\ command = NoCommand
  /\ placed = 0
  /\ out = << >>
  /\ inits = 0
  /\ last = Step("start", 0, 0, FALSE, FALSE, FALSE, FALSE, << >>)

\* The loop with New entered for every pair of NewValues.
NextNew ==
  \/ LoopTop
  \/ \E x \in NewValues, y \in NewValues : NewCmd(x, y)
  \/ \E x \in 0..(width - 1), y \in 0..(height - 1) : RevealCmd(x, y)
  \/ \E pos \in 0..(width * height - 1) : InitDraw(pos)
  \/ \E x \in 0..(width - 1), y \in 0..(height - 1) : FlagCmd(x, y)
  \/ QuitCmd

SpecNew == InitNew /\ [][NextNew]_vars

----------------------------------------------------------------------------
\* Vocabulary of the properties, defined on the grid itself and not through
\* for_each_neighbour or the counters of check_board.

XOf(w, i) == i % w
YOf(w, i) == i \div w

Abs(n) == IF n < 0 THEN -n ELSE n

\* i and j are distinct cells that share an edge or a corner.
Adjacent(w, i, j) ==
  /\ i # j
  /\ Abs(XOf(w, i) - XOf(w, j)) <= 1
  /\ Abs(YOf(w, i) - YOf(w, j)) <= 1

Around(cs, w, i) == {j \in DOMAIN cs : Adjacent(w, i, j)}

MineCount(cs) == Cardinality({i \in DOMAIN cs : cs[i].is_mine})

MinesAround(cs, w, i) == Cardinality({j \in Around(cs, w, i) : cs[j].is_mine})

FlagsAround(cs, w, i) ==
  Cardinality({j \in Around(cs, w, i) : cs[j].is_flagged})

NoneRevealed(cs) == \A i \in DOMAIN cs : ~cs[i].is_revealed

AllSafeRevealed(cs) == \A i \in DOMAIN cs : ~cs[i].is_mine => cs[i].is_revealed

\* The message m was printed by the step just taken.
Printed(o, m) == \E k \in 1..Len(o) : o[k] = m

\* The steps that complete a Reveal command.
RevealOps == {"reveal", "chord", "chord_rejected", "revealed_already"}

\* The cell the step just taken was aimed at.
Target == Index(width, last.x, last.y)

\* Only the reveal and flag bits of the cells in S differ between cs and ds.
SameBits(cs, ds, i) ==
  /\ ds[i].is_revealed = cs[i].is_revealed
  /\ ds[i].is_flagged = cs[i].is_flagged

ZeroCell(cs, i) == ~cs[i].is_mine /\ cs[i].neighbor_mines = 0

RECURSIVE Grow(_, _, _)

\* The 8-connected component of zero-count non-mine cells that contains S.
Grow(cs, w, S) ==
  LET T == S \cup {j \in DOMAIN cs :
                     ZeroCell(cs, j) /\ \E i \in S : Adjacent(w, i, j)}
  IN  IF T = S THEN S ELSE Grow(cs, w, T)

\* The region a reveal of the non-mine cell c opens: the component of c and
\* all its neighbours when c counts 0, and c alone otherwise.
Region(cs, w, c) ==
  IF ZeroCell(cs, c)
    THEN LET Z == Grow(cs, w, {c})
         IN  Z \cup {j \in DOMAIN cs : \E i \in Z : Adjacent(w, i, j)}
    ELSE {c}

NoDuplicates(q) == \A a, b \in 1..Len(q) : a # b => q[a] # q[b]

----------------------------------------------------------------------------
\* C1: once a Reveal command has been processed the board holds exactly
\* num_mines mines and init_board has run exactly once in the game, whatever
\* commands came before that Reveal.
C1_MinesPlacedByFirstReveal ==
  last.op \in RevealOps => (MineCount(cells) = num_mines /\ inits = 1)

\* C2 (P3): after init_board every cell that is not a mine stores in
\* neighbor_mines the number of mines among its neighbours.
C2_NeighborCounts ==
  (inits > 0 /\ pc # "init") =>
    \A i \in DOMAIN cells :
      ~cells[i].is_mine => cells[i].neighbor_mines = MinesAround(cells, width, i)

\* C3 (P1): on a board with 0 <= num_mines < width * height, init_board holds
\* as many mines as it has counted while it runs and exactly num_mines mines
\* once it has returned, whatever cell is excluded and whatever is drawn.
C3_MineCount ==
  (inits > 0 /\ 0 <= num_mines /\ num_mines < width * height) =>
    IF pc = "init"
      THEN MineCount(cells) = placed /\ placed < num_mines
      ELSE MineCount(cells) = num_mines

\* init_board has returned after drawing both a mine a second time and the
\* excluded cell.
C3_Witness ==
  /\ last.op = "reveal" /\ last.init /\ last.dup /\ last.blk
  /\ num_mines >= 2

\* C4 (P2): the first Reveal of a game (no cell is revealed before it) leaves
\* its target not a mine and does not set game_over.
C4_FirstRevealSafe ==
  [][(last'.op \in RevealOps /\ NoneRevealed(cells)) =>
       (~cells'[Index(width, last'.x, last'.y)].is_mine /\ ~game_over')]_vars

\* The Reveal that placed the mines is done, and its cell was drawn on the way.
C4_Witness ==
  /\ last.op = "reveal" /\ last.init /\ last.blk
  /\ num_mines > 0 /\ MineCount(cells) = num_mines
  /\ cells[Target].is_revealed /\ ~game_over

\* C5 (P6): check_board prints the win exactly when the flagged mines and the
\* cells neither flagged nor revealed number num_mines; then every mine is
\* flagged (nothing else changes) and game_over is set; otherwise no cell and
\* not game_over changes.
C5_WinEquality ==
  [][pc = "loop" =>
       LET win ==
             Cardinality({i \in DOMAIN cells :
                            cells[i].is_flagged /\ cells[i].is_mine})
             + Cardinality({i \in DOMAIN cells :
                              ~cells[i].is_flagged /\ ~cells[i].is_revealed})
             = num_mines
       IN  /\ Printed(out', "You win!") <=> win
           /\ win => /\ game_over'
                     /\ \A i \in DOMAIN cells :
                          cells'[i] = IF cells[i].is_mine
                                        THEN [cells[i] EXCEPT !.is_flagged = TRUE]
                                        ELSE cells[i]
           /\ ~win => (cells' = cells /\ game_over' = game_over)]_vars

\* check_board has declared a win on a board with mines placed.
C5_Witness ==
  /\ last.op = "check" /\ Printed(out, "You win!")
  /\ inits > 0 /\ num_mines > 0 /\ MineCount(cells) = num_mines

\* C6: when every cell that is not a mine is revealed, the check_board of the
\* next loop iteration declares the win.
C6_AllSafeRevealedWins ==
  [][(pc = "loop" /\ AllSafeRevealed(cells)) => Printed(out', "You win!")]_vars

\* C7 (P4): a Reveal of an unrevealed cell that is not a mine and counts 0 or
\* more leaves its region revealed and unflagged, leaves the reveal and flag
\* bits outside the region alone, changes no mine and no count (unless it
\* placed them), and sets is_revealed once on each cell it reveals.
C7_FloodFill ==
  [][LET c == Index(width, last'.x, last'.y)
     IN  (last'.op = "reveal" /\ ~cells'[c].is_mine
          /\ cells'[c].neighbor_mines >= 0) =>
           LET R == Region(cells', width, c)
           IN  /\ \A i \in R : cells'[i].is_revealed /\ ~cells'[i].is_flagged
               /\ \A i \in DOMAIN cells \ R : SameBits(cells, cells', i)
               /\ ~last'.init =>
                    \A i \in DOMAIN cells :
                      /\ cells'[i].is_mine = cells[i].is_mine
                      /\ cells'[i].neighbor_mines = cells[i].neighbor_mines
               /\ NoDuplicates(last'.log)
               /\ {last'.log[k] : k \in 1..Len(last'.log)}
                    = {i \in DOMAIN cells :
                         ~cells[i].is_revealed /\ cells'[i].is_revealed}]_vars

\* A Reveal of a cell that counts 0 has opened several cells and left a cell
\* that is not a mine hidden.
C7_Witness ==
  /\ last.op = "reveal" /\ ZeroCell(cells, Target)
  /\ Len(last.log) >= 3
  /\ MineCount(cells) = num_mines /\ num_mines > 0
  /\ \E i \in DOMAIN cells : ~cells[i].is_mine /\ ~cells[i].is_revealed

\* The cells an accepted chord on c opens: the regions of the neighbours of c
\* that are not mines.
ChordRegion(cs, w, c) ==
  UNION {Region(cs, w, n) : n \in {j \in Around(cs, w, c) : ~cs[j].is_mine}}

\* C8 as claimed: an accepted chord reveals the neighbours that are not mines
\* and leaves the reveal and flag bits of every neighbour that is flagged or
\* is a mine as they were.
C8_ChordLeavesFlaggedAndMines ==
  [][last'.op = "chord" =>
       \A n \in Around(cells, width, Index(width, last'.x, last'.y)) :
         IF cells[n].is_flagged \/ cells[n].is_mine
           THEN SameBits(cells, cells', n)
           ELSE cells'[n].is_revealed]_vars

\* C8 amended: an accepted chord reveals every neighbour that is not a mine,
\* flagged or not, by the flood-fill rule (the regions of these neighbours end
\* revealed and unflagged, no other cell changes) and leaves the reveal and
\* flag bits of every neighbour that is a mine as they were.
C8_ChordSkipsMines ==
  [][last'.op = "chord" =>
       LET c == Index(width, last'.x, last'.y)
           T == ChordRegion(cells, width, c)
       IN  /\ \A n \in Around(cells, width, c) :
                IF cells[n].is_mine
                  THEN SameBits(cells, cells', n)
                  ELSE cells'[n].is_revealed /\ ~cells'[n].is_flagged
           /\ \A i \in T : cells'[i].is_revealed /\ ~cells'[i].is_flagged
           /\ \A i \in DOMAIN cells \ T : cells'[i] = cells[i]
           /\ game_over' = game_over]_vars

\* An accepted chord has opened a cell next to a flagged mine it left hidden.
C8_Witness ==
  /\ last.op = "chord" /\ Len(last.log) > 0
  /\ \E n \in Around(cells, width, Target) :
       cells[n].is_mine /\ cells[n].is_flagged /\ ~cells[n].is_revealed

\* C9 (P5): a Reveal of a revealed cell that counts more than 0 and has
\* another number of flagged neighbours changes no cell and not game_over, and
\* prints the rejection.
C9_ChordRejected ==
  [][LET c == Index(width, last'.x, last'.y)
     IN  (/\ pc = "read"
          /\ last'.op \in RevealOps
          /\ cells[c].is_revealed
          /\ cells[c].neighbor_mines > 0
          /\ FlagsAround(cells, width, c) # cells[c].neighbor_mines) =>
           /\ cells' = cells
           /\ game_over' = game_over
           /\ out' = <<"Incorrect number of flags">>]_vars

\* A chord was rejected that would have opened a hidden neighbour.
C9_Witness ==
  /\ last.op = "chord_rejected"
  /\ cells[Target].is_revealed /\ cells[Target].neighbor_mines > 0
  /\ FlagsAround(cells, width, Target) # cells[Target].neighbor_mines
  /\ \E n \in Around(cells, width, Target) :
       ~cells[n].is_mine /\ ~cells[n].is_revealed

\* C10: no cell is both revealed and flagged.
C10_NeverRevealedAndFlagged ==
  \A i \in DOMAIN cells : ~(cells[i].is_revealed /\ cells[i].is_flagged)

\* C11: once a Reveal has opened a mine and set game_over, check_board does
\* not declare that game won.
C11_NoWinAfterLoss ==
  [][(pc = "loop" /\ game_over) => ~Printed(out', "You win!")]_vars

\* C13 (Scenario C): a Reveal of an unrevealed mine leaves that cell revealed
\* and unflagged, sets game_over and changes nothing else on the board.
C13_RevealMine ==
  [][LET c == Index(width, last'.x, last'.y)
     IN  (/\ pc = "read"
          /\ last'.op \in RevealOps
          /\ cells[c].is_mine
          /\ ~cells[c].is_revealed) =>
           /\ cells' = [cells EXCEPT ![c].is_revealed = TRUE,
                                     ![c].is_flagged = FALSE]
           /\ game_over'
           /\ last'.log = <<c>>]_vars

\* A flagged mine was opened next to a hidden cell and a revealed one.
C13_Witness ==
  /\ last.op = "reveal" /\ cells[Target].is_mine /\ last.flagged
  /\ game_over
  /\ \E n \in Around(cells, width, Target) : ~cells[n].is_revealed
  /\ \E n \in Around(cells, width, Target) : cells[n].is_revealed

\* C12: init_board is never entered on a board with num_mines >= width *
\* height (such a configuration was rejected before any Reveal).
C12_ImpossibleRejected ==
  inits > 0 => num_mines < width * height

\* C14 (Scenario D): a Reveal of a hidden flagged cell gives the board and the
\* game_over that the same Reveal gives when the cell is not flagged; the cell
\* ends revealed and every cell the Reveal opened ends unflagged.
C14_FlagNeverBlocks ==
  [][LET c == Index(width, last'.x, last'.y)
     IN  (/\ pc = "read"
          /\ last'.op \in RevealOps
          /\ ~cells[c].is_revealed
          /\ cells[c].is_flagged) =>
           LET r == reveal_command([cells EXCEPT ![c].is_flagged = FALSE],
                                   game_over, width, height, last'.x, last'.y)
           IN  /\ cells' = r.cells
               /\ game_over' = r.game_over
               /\ cells'[c].is_revealed /\ ~cells'[c].is_flagged
               /\ \A k \in 1..Len(last'.log) :
                    /\ cells'[last'.log[k]].is_revealed
                    /\ ~cells'[last'.log[k]].is_flagged]_vars

\* A Reveal of a flagged cell that is not a mine has cascaded.
C14_Witness ==
  /\ last.op = "reveal" /\ last.flagged /\ ~last.init
  /\ ~cells[Target].is_mine /\ cells[Target].is_revealed
  /\ Len(last.log) >= 2
  /\ MineCount(cells) = num_mines /\ num_mines > 0

\* C15 (Scenario B): with num_mines = 0 the first Reveal of a game leaves
\* every cell revealed, whatever was flagged before, and the check_board that
\* follows a Reveal declares the win.
C15_NoMinesFloodAndWin ==
  [][/\ (num_mines = 0 /\ last'.op \in RevealOps /\ NoneRevealed(cells)) =>
          \A i \in DOMAIN cells : cells'[i].is_revealed /\ ~cells'[i].is_flagged
     /\ (num_mines = 0 /\ pc = "loop" /\ last.op \in RevealOps) =>
          (Printed(out', "You win!") /\ game_over')]_vars

\* A board of six cells or more without mines was won on the third turn: by a
\* Reveal that followed a Flag.
C15_Witness ==
  /\ num_mines = 0 /\ width * height >= 6
  /\ last.op = "check" /\ Printed(out, "You win!")
  /\ time = 3
  /\ \A i \in DOMAIN cells : cells[i].is_revealed

\* C16: a Flag of a revealed cell changes nothing; a Flag of an unrevealed
\* cell flips the is_flagged bit of that cell and changes no other bit, no
\* other cell and not game_over. Two Flags of the same unrevealed cell in a
\* row restore the board: when check_board does not end the game in between,
\* the second toggle undoes the first, and a second-turn Flag of a flagged
\* cell gives back the blank board the game started with.
C16_FlagFlipsOneBit ==
  [][(pc = "read" /\ last'.op \in {"flag", "flag_revealed"}) =>
       LET c == Index(width, last'.x, last'.y)
           between == check_board(cells', num_mines)
       IN  /\ game_over' = game_over
           /\ <<width', height', num_mines', time'>> = <<width, height, num_mines, time>>
           /\ DOMAIN cells' = DOMAIN cells
           /\ \A i \in DOMAIN cells \ {c} : cells'[i] = cells[i]
           /\ cells'[c] = [cells[c] EXCEPT !.is_flagged =
                             IF cells[c].is_revealed THEN @ ELSE ~@]
           /\ (~cells[c].is_revealed /\ ~between.win) =>
                toggle_flag(between.cells, c) = cells
           /\ (last'.flagged /\ time = 2 /\ inits = 0) =>
                cells' = BlankCells(width, height)]_vars

\* The second of two Flags of one cell has removed the flag, after a Reveal
\* opened other cells and placed the mines.
C16_Witness ==
  /\ last.op = "flag" /\ last.flagged
  /\ ~cells[Target].is_flagged /\ ~cells[Target].is_revealed
  /\ inits = 1 /\ MineCount(cells) = num_mines /\ num_mines > 0
  /\ \E i \in DOMAIN cells : cells[i].is_revealed

\* C18: a Reveal that takes the chord branch leaves game_over as it was,
\* false, and sets is_revealed on no mine, neither on a neighbour nor on a
\* cell a cascade reaches.
C18_ChordNeverLoses ==
  [][(pc = "read" /\ last'.op = "chord") =>
       /\ ~game_over'
       /\ game_over' = game_over
       /\ \A i \in DOMAIN cells :
            cells[i].is_mine => cells'[i].is_revealed = cells[i].is_revealed
       /\ \A k \in 1..Len(last'.log) : ~cells[last'.log[k]].is_mine]_vars

\* A chord accepted on a flag that sat on a cell without a mine: it opened
\* that cell and left the mine next to the target hidden and unflagged.
C18_Witness ==
  /\ last.op = "chord" /\ Len(last.log) > 0
  /\ ~game_over
  /\ \E n \in Around(cells, width, Target) :
       cells[n].is_mine /\ ~cells[n].is_flagged /\ ~cells[n].is_revealed

\* C19: while game_over is false no cell is both a mine and revealed.
C19_MineRevealedOnlyByLoss ==
  ~game_over => \A i \in DOMAIN cells : ~(cells[i].is_mine /\ cells[i].is_revealed)

\* C20: whenever check_board declares the win, every cell that is not a mine
\* is revealed.
C20_WinMeansCleared ==
  Printed(out, "You win!") => AllSafeRevealed(cells)

\* C17: New gives a fresh game. The dimensions are the arguments when both
\* are positive and are kept otherwise; the grid has width * height cells, all
\* blank; game_over is false, the turn counter 0, no mine is placed and the
\* mine count is kept. The next loop turn is turn 1 and declares nothing, and
\* a Reveal on turn 1 runs init_board, which places num_mines mines.
C17_NewIsFresh ==
  [][/\ last'.op = "new" =>
          /\ IF last'.x > 0 /\ last'.y > 0
               THEN width' = last'.x /\ height' = last'.y
               ELSE width' = width /\ height' = height
          /\ DOMAIN cells' = 0..(width' * height' - 1)
          /\ Cardinality(DOMAIN cells') = width' * height'
          /\ \A i \in DOMAIN cells' :
               /\ ~cells'[i].is_mine /\ ~cells'[i].is_revealed
               /\ ~cells'[i].is_flagged /\ cells'[i].neighbor_mines = 0
          /\ ~game_over' /\ time' = 0 /\ inits' = 0
          /\ num_mines' = num_mines
     /\ (pc = "loop" /\ last.op = "new") =>
          (time' = 1 /\ pc' = "read" /\ cells' = cells /\ ~game_over')
     /\ (time = 1 /\ last'.op \in RevealOps) =>
          /\ last'.init /\ inits' = 1
          /\ MineCount(cells') = num_mines
          /\ ~cells'[Index(width, last'.x, last'.y)].is_mine]_vars

\* A Reveal has placed the mines on a board of MaxNew rows, which only a New
\* with two positive arguments creates from the one-row boards.
C17_Witness ==
  /\ height = MaxNew /\ width = MaxNew
  /\ last.op = "reveal" /\ last.init
  /\ num_mines > 0 /\ MineCount(cells) = num_mines

====
